---- MODULE Spec2Model ----
(***************************************************************************)
(* ChromaDbClient (src/src/client/chromaClient.ts): a facade over the      *)
(* chromadb SDK.  The facade's fields are the variables connected, config, *)
(* sdkClient and adminClient.  Every public method is an async function:   *)
(* it runs atomically from one await to the next (JavaScript's event       *)
(* loop), so each method is modelled as a start step followed by one       *)
(* resume step per await.  Several calls may be in flight at once; each    *)
(* lives in a slot of `calls`.  The backing store (collections with their  *)
(* records, tenants, databases) is the environment: every awaited SDK call *)
(* either fails or answers from the store's current contents.              *)
(*                                                                         *)
(* Optional values are sequences of length at most one: <<>> is            *)
(* undefined/null, <<x>> is the value x.  Floating-point components of an  *)
(* embedding are integers (0 is 0.0).                                      *)
(***************************************************************************)
EXTENDS Integers, Sequences, FiniteSets, TLC

VARIABLES connected, config, sdkClient, adminClient, calls,
          colls, collSeq, tenants, databases

vars == <<connected, config, sdkClient, adminClient, calls, colls, collSeq, tenants, databases>>

facade == <<connected, config, sdkClient, adminClient>>
backing == <<colls, collSeq, tenants, databases>>

None == <<>>
Some(x) == <<x>>

\* ---------------------------------------------------------------- bounds

\* Number of calls that may be in flight at once in the connection
\* specification and in the concurrent-update specification.
NumCalls == 2

\* Largest length of a caller-supplied embedding.
MaxDim == 1

\* Number of collections the store creates before it refuses further ones.
MaxColls == 2

\* ------------------------------------------------------- program constants

DefaultLimit == 50
DefaultOffset == 0
DefaultNResults == 5
DefaultTenant == "default_tenant"
Placeholder == <<0>>

\* ------------------------------------------------------------ value sets

Configs == {[tenant |-> None], [tenant |-> Some("acme")]}

\* ------------------------------------------------------------ call slots

\* A slot holds a caller's latest call: the operation, where it is suspended,
\* its arguments and locals, the SDK requests it has made (constructors
\* included), the requests among them that failed, and how it ended.
Idle == [op |-> "none", pc |-> "idle", arg |-> None, loc |-> None, sent |-> <<>>,
         failed |-> <<>>, ret |-> [kind |-> "pending", val |-> None]]

Free(p) == calls[p].pc \in {"idle", "done"}

At(p, op, pc) == calls[p].op = op /\ calls[p].pc = pc

\* A call that has just been entered: nothing awaited, nothing sent yet.
Enter(op, arg) == [Idle EXCEPT !.op = op, !.arg = arg]

\* The call awaits the SDK request req at program point pc.
Await(c, pc, req) == [c EXCEPT !.pc = pc, !.sent = Append(@, req)]

Return(c, val) == [c EXCEPT !.pc = "done", !.ret = [kind |-> "return", val |-> val]]

Throw(c, err) == [c EXCEPT !.pc = "done", !.ret = [kind |-> "throw", val |-> err]]

WithLoc(c, loc) == [c EXCEPT !.loc = loc]

\* The latest request of the call failed.
Failed(c) == [c EXCEPT !.failed = Append(@, c.sent[Len(c.sent)].call)]

Construct(c) == [c EXCEPT !.sent = Append(@, [call |-> "new SDKChromaClient"])]

NotConnected == "not connected"
StoreError == "store error"
CtorError == "constructor error"

\* ------------------------------------------------------------ connect

\* The catch block of connect: the call c of slot p ends with false.
ConnectCatchKeepsFlag(p, c) ==
    /\ UNCHANGED connected
    /\ sdkClient' = None
    /\ adminClient' = None
    /\ calls' = [calls EXCEPT ![p] = Return(c, FALSE)]

ConnectCatch(p, c) ==
    /\ connected' = FALSE
    /\ sdkClient' = None
    /\ adminClient' = None
    /\ calls' = [calls EXCEPT ![p] = Return(c, FALSE)]

\* connect up to its await: the config is replaced, both sessions are
\* constructed and stored, the version request is sent.  A constructor that
\* throws lands in the catch block at once.
ConnectStart(p, cfg, ctorOk) ==
    /\ Free(p)
    /\ config' = cfg
    /\ UNCHANGED backing
    /\ LET c == [Enter("connect", [cfg |-> cfg]) EXCEPT
                    !.loc = [ctorOk |-> ctorOk, versionOk |-> FALSE]]
       IN  IF ctorOk
           THEN /\ sdkClient' = Some(p)
                /\ adminClient' = Some(p)
                /\ UNCHANGED connected
                /\ calls' = [calls EXCEPT ![p] =
                      Await([c EXCEPT !.sent = <<[call |-> "new SDKChromaClient"],
                                                 [call |-> "new AdminClient"]>>],
                            "version", [call |-> "version"])]
           ELSE ConnectCatch(p, Failed(Construct(c)))

\* connect after its await: the version check answered or failed.
ConnectResume(p, ok) ==
    /\ At(p, "connect", "version")
    /\ UNCHANGED <<config, backing>>
    /\ LET c == [calls[p] EXCEPT !.loc.versionOk = ok]
       IN  IF ok
           THEN /\ connected' = TRUE
                /\ UNCHANGED <<sdkClient, adminClient>>
                /\ calls' = [calls EXCEPT ![p] = Return(c, TRUE)]
           ELSE ConnectCatch(p, Failed(c))

isConnected == connected

\* ------------------------------------------------------------ listTenants

\* this.config.tenant || 'default_tenant'
ConfigTenant == IF config.tenant # None THEN config.tenant[1] ELSE DefaultTenant

IdentityReq == [call |-> "getUserIdentity"]

\* listTenants up to its await.  A missing store session makes the call on
\* it throw inside the try block, which the catch answers with the fallback.
ListTenantsStart(p) ==
    /\ Free(p)
    /\ UNCHANGED <<facade, backing>>
    /\ LET c == Enter("listTenants", None)
       IN  calls' = [calls EXCEPT ![p] =
              IF ~connected THEN Return(c, <<>>)
              ELSE IF sdkClient = None
                   THEN Return(Failed(Await(c, "identity", IdentityReq)), <<ConfigTenant>>)
              ELSE Await(c, "identity", IdentityReq)]

\* identity is the tenant of the answer, if it names one.
ListTenantsResume(p, ok, identity) ==
    /\ At(p, "listTenants", "identity")
    /\ UNCHANGED <<facade, backing>>
    /\ calls' = [calls EXCEPT ![p] =
          IF ~ok THEN Return(Failed(@), <<ConfigTenant>>)
          ELSE IF identity # None THEN Return(@, <<identity[1]>>)
          ELSE Return(@, <<ConfigTenant>>)]

\* ------------------------------------------------------------ listDatabases

\* d.name ?? d.id ?? String(d)
DbLabel(d) == IF d.name # None THEN d.name[1]
              ELSE IF d.id # None THEN d.id[1] ELSE "[object Object]"

MapSeq(s, Op(_)) == [i \in 1..Len(s) |-> Op(s[i])]

DbsOf(t) == SelectSeq(databases, LAMBDA d : d.tenant = t)

ListDatabasesStart(p, tenant) ==
    /\ Free(p)
    /\ UNCHANGED <<facade, backing>>
    /\ LET c == Enter("listDatabases", [tenant |-> tenant])
           tName == IF tenant # None THEN tenant[1] ELSE ConfigTenant
       IN  calls' = [calls EXCEPT ![p] =
              IF ~connected \/ adminClient = None THEN Return(c, <<>>)
              ELSE Await(c, "listDatabases",
                         [call |-> "admin.listDatabases", tenant |-> tName])]

ListDatabasesResume(p, ok) ==
    /\ At(p, "listDatabases", "listDatabases")
    /\ UNCHANGED <<facade, backing>>
    /\ calls' = [calls EXCEPT ![p] =
          IF ok THEN Return(@, MapSeq(DbsOf(@.sent[Len(@.sent)].tenant), DbLabel))
          ELSE Return(Failed(@), <<>>)]

\* ------------------------------------------- tenant / database management

AdminStart(p, op, req) ==
    /\ Free(p)
    /\ UNCHANGED <<facade, backing>>
    /\ LET c == Enter(op, req)
       IN  calls' = [calls EXCEPT ![p] =
              IF ~connected \/ adminClient = None THEN Throw(c, NotConnected)
              ELSE Await(c, "admin", [call |-> op] @@ req)]

CreateTenantStart(p, name) == AdminStart(p, "createTenant", [name |-> name])

CreateTenantResume(p, ok) ==
    /\ At(p, "createTenant", "admin")
    /\ UNCHANGED <<facade, colls, collSeq, databases>>
    /\ IF ok /\ calls[p].arg.name \notin tenants
       THEN /\ tenants' = tenants \cup {calls[p].arg.name}
            /\ calls' = [calls EXCEPT ![p] = Return(@, TRUE)]
       ELSE /\ UNCHANGED tenants
            /\ calls' = [calls EXCEPT ![p] = Throw(Failed(@), StoreError)]

CreateDatabaseStart(p, tenant, name) ==
    AdminStart(p, "createDatabase", [tenant |-> tenant, name |-> name])

HasDb(t, n) == \E i \in 1..Len(databases) :
                  databases[i].tenant = t /\ databases[i].name = Some(n)

CreateDatabaseResume(p, ok) ==
    /\ At(p, "createDatabase", "admin")
    /\ UNCHANGED <<facade, colls, collSeq, tenants>>
    /\ LET a == calls[p].arg
       IN  IF ok /\ ~HasDb(a.tenant, a.name)
           THEN /\ databases' = Append(databases,
                      [tenant |-> a.tenant, name |-> Some(a.name), id |-> Some(a.name)])
                /\ calls' = [calls EXCEPT ![p] = Return(@, TRUE)]
           ELSE /\ UNCHANGED databases
                /\ calls' = [calls EXCEPT ![p] = Throw(Failed(@), StoreError)]

DeleteDatabaseStart(p, tenant, name) ==
    AdminStart(p, "deleteDatabase", [tenant |-> tenant, name |-> name])

DeleteDatabaseResume(p, ok) ==
    /\ At(p, "deleteDatabase", "admin")
    /\ UNCHANGED <<facade, colls, collSeq, tenants>>
    /\ LET a == calls[p].arg
       IN  IF ok /\ HasDb(a.tenant, a.name)
           THEN /\ databases' = SelectSeq(databases,
                      LAMBDA d : ~(d.tenant = a.tenant /\ d.name = Some(a.name)))
                /\ calls' = [calls EXCEPT ![p] = Return(@, TRUE)]
           ELSE /\ UNCHANGED databases
                /\ calls' = [calls EXCEPT ![p] = Throw(Failed(@), StoreError)]

\* ------------------------------------------------- the store's collections

\* colls is the store's list of collections, each [id, name, recs]; recs is
\* the collection's records in insertion order, each
\* [id, document, metadata, embedding] with optional fields.

\* Collection ids are never reused: collSeq counts the ids handed out.
CollIdNames == <<"c1", "c2", "c3", "c4", "c5">>
CanCreate == collSeq < MaxColls
NewColl(name) == [id |-> CollIdNames[collSeq + 1], name |-> name, recs |-> <<>>]

HasColl(name) == \E i \in 1..Len(colls) : colls[i].name = name
CollIdx(name) == CHOOSE i \in 1..Len(colls) : colls[i].name = name

HasCollId(id) == \E i \in 1..Len(colls) : colls[i].id = id
CollIdxById(id) == CHOOSE i \in 1..Len(colls) : colls[i].id = id
RecsOf(id) == colls[CollIdxById(id)].recs

HasRec(recs, id) == \E i \in 1..Len(recs) : recs[i].id = id
RecIdx(recs, id) == CHOOSE i \in 1..Len(recs) : recs[i].id = id

\* What the store lists for a collection (the SDK's collection object has no
\* count field).
Listing == [i \in 1..Len(colls) |->
               [id |-> Some(colls[i].id), name |-> Some(colls[i].name), count |-> None]]

\* ------------------------------------------------------------ listCollections

\* { id: c.id ?? c.name, name: c.name ?? c.id, count: c.count ?? 0 }
CollectionRef(c) ==
    [id    |-> IF c.id # None THEN c.id ELSE c.name,
     name  |-> IF c.name # None THEN c.name ELSE c.id,
     count |-> IF c.count # None THEN c.count[1] ELSE 0]

ListCollectionsStart(p, ctorOk) ==
    /\ Free(p)
    /\ UNCHANGED <<facade, backing>>
    /\ LET c == Enter("listCollections", None)
       IN  calls' = [calls EXCEPT ![p] =
              IF ~connected THEN Return(c, <<>>)
              ELSE IF ~ctorOk THEN Return(Failed(Construct(c)), <<>>)
              ELSE Await(Construct(c), "listCollections", [call |-> "listCollections"])]

ListCollectionsResume(p, ok) ==
    /\ At(p, "listCollections", "listCollections")
    /\ UNCHANGED <<facade, backing>>
    /\ calls' = [calls EXCEPT ![p] =
          IF ok THEN Return(@, MapSeq(Listing, CollectionRef)) ELSE Return(Failed(@), <<>>)]

\* ------------------------------------------------------------ resolveCollectionId

\* The loop over the listing: the id (or else the name) of the first item
\* whose id or name is the input, and the input itself when there is none.
RECURSIVE FirstMatch(_, _, _)
FirstMatch(cols, i, collectionOrId) ==
    IF i > Len(cols) THEN collectionOrId
    ELSE IF cols[i].id = Some(collectionOrId) \/ cols[i].name = Some(collectionOrId)
         THEN (IF cols[i].id # None THEN cols[i].id[1] ELSE cols[i].name[1])
         ELSE FirstMatch(cols, i + 1, collectionOrId)

ResolveCollectionIdStart(p, collectionOrId, ctorOk) ==
    /\ Free(p)
    /\ UNCHANGED <<facade, backing>>
    /\ LET c == Enter("resolveCollectionId", [collectionOrId |-> collectionOrId])
       IN  calls' = [calls EXCEPT ![p] =
              IF ~connected THEN Return(c, collectionOrId)
              ELSE IF ~ctorOk THEN Return(Failed(Construct(c)), collectionOrId)
              ELSE Await(Construct(c), "listCollections", [call |-> "listCollections"])]

ResolveCollectionIdResume(p, ok) ==
    /\ At(p, "resolveCollectionId", "listCollections")
    /\ UNCHANGED <<facade, backing>>
    /\ calls' = [calls EXCEPT ![p] =
          IF ok THEN Return(@, FirstMatch(Listing, 1, @.arg.collectionOrId))
          ELSE Return(Failed(@), @.arg.collectionOrId)]

\* ----------------------------------------- the start of a scoped operation

WriteStartUnguarded(p, op, arg, loc, ctorOk, pc, req) ==
    /\ Free(p)
    /\ UNCHANGED <<facade, backing>>
    /\ LET c == WithLoc(Enter(op, arg), loc)
       IN  calls' = [calls EXCEPT ![p] =
              IF ~ctorOk THEN Throw(Failed(Construct(c)), CtorError)
              ELSE Await(Construct(c), pc, req)]

\* Operations on a collection of the propagate policy (create, delete and
\* rename collection; add, update and delete record): the connection guard
\* throws, the session is constructed outside the try block, then the first
\* request is awaited.
WriteStart(p, op, arg, loc, ctorOk, pc, req) ==
    /\ Free(p)
    /\ UNCHANGED <<facade, backing>>
    /\ LET c == WithLoc(Enter(op, arg), loc)
       IN  calls' = [calls EXCEPT ![p] =
              IF ~connected THEN Throw(c, NotConnected)
              ELSE IF ~ctorOk THEN Throw(Failed(Construct(c)), CtorError)
              ELSE Await(Construct(c), pc, req)]

\* Read operations on a collection (listRecords, getRecord, queryCollection):
\* the connection guard answers `empty`; the session is constructed outside
\* the try block, so a constructor that throws is not caught.
ReadStart(p, op, arg, empty, ctorOk, pc, req) ==
    /\ Free(p)
    /\ UNCHANGED <<facade, backing>>
    /\ LET c == Enter(op, arg)
       IN  calls' = [calls EXCEPT ![p] =
              IF ~connected THEN Return(c, empty)
              ELSE IF ~ctorOk THEN Throw(Failed(Construct(c)), CtorError)
              ELSE Await(Construct(c), pc, req)]

\* await client.getCollection({ name }): the handle of the named collection.
GetCollectionReq(name) == [call |-> "getCollection", name |-> name]

\* ------------------------------------------- createCollection / deleteCollection

CreateCollectionStart(p, name, ctorOk) ==
    WriteStart(p, "createCollection", [name |-> name], None, ctorOk,
               "createCollection", [call |-> "createCollection", name |-> name])

CreateCollectionResume(p, ok) ==
    /\ At(p, "createCollection", "createCollection")
    /\ UNCHANGED <<facade, tenants, databases>>
    /\ LET name == calls[p].arg.name
       IN  IF ok /\ ~HasColl(name) /\ CanCreate
           THEN /\ colls' = Append(colls, NewColl(name))
                /\ collSeq' = collSeq + 1
                /\ calls' = [calls EXCEPT ![p] = Return(@, TRUE)]
           ELSE /\ UNCHANGED <<colls, collSeq>>
                /\ calls' = [calls EXCEPT ![p] = Throw(Failed(@), StoreError)]

DeleteCollectionStart(p, name, ctorOk) ==
    WriteStart(p, "deleteCollection", [name |-> name], None, ctorOk,
               "deleteCollection", [call |-> "deleteCollection", name |-> name])

DeleteCollectionResume(p, ok) ==
    /\ At(p, "deleteCollection", "deleteCollection")
    /\ UNCHANGED <<facade, collSeq, tenants, databases>>
    /\ LET name == calls[p].arg.name
       IN  IF ok /\ HasColl(name)
           THEN /\ colls' = SelectSeq(colls, LAMBDA c : c.name # name)
                /\ calls' = [calls EXCEPT ![p] = Return(@, TRUE)]
           ELSE /\ UNCHANGED colls
                /\ calls' = [calls EXCEPT ![p] = Throw(Failed(@), StoreError)]

\* ------------------------------------------------------------ renameCollection

RenameCollectionStart(p, oldName, newName, ctorOk) ==
    WriteStart(p, "renameCollection", [oldName |-> oldName, newName |-> newName], None,
               ctorOk, "getCollection", GetCollectionReq(oldName))

RenameCollectionResume1(p, ok) ==
    /\ At(p, "renameCollection", "getCollection")
    /\ UNCHANGED <<facade, backing>>
    /\ calls' = [calls EXCEPT ![p] =
          IF ok /\ HasColl(@.arg.oldName)
          THEN Await(WithLoc(@, [col |-> colls[CollIdx(@.arg.oldName)].id]),
                     "modify", [call |-> "col.modify", name |-> @.arg.newName])
          ELSE Throw(Failed(@), StoreError)]

RenameCollectionResume2(p, ok) ==
    /\ At(p, "renameCollection", "modify")
    /\ UNCHANGED <<facade, collSeq, tenants, databases>>
    /\ LET col == calls[p].loc.col
           newName == calls[p].arg.newName
       IN  IF ok /\ HasCollId(col) /\ ~HasColl(newName)
           THEN /\ colls' = [colls EXCEPT ![CollIdxById(col)].name = newName]
                /\ calls' = [calls EXCEPT ![p] = Return(@, TRUE)]
           ELSE /\ UNCHANGED colls
                /\ calls' = [calls EXCEPT ![p] = Throw(Failed(@), StoreError)]

\* ------------------------------------------------------ the store's records

Min(a, b) == IF a < b THEN a ELSE b

\* col.get({ limit, offset }): the window of the collection's records.
Window(recs, limit, offset) == SubSeq(recs, offset + 1, Min(offset + limit, Len(recs)))

\* col.get({ ids: [id] }): the records with that id.
ById(recs, id) == SelectSeq(recs, LAMBDA r : r.id = id)

\* The answer to a get that includes documents, metadatas and embeddings:
\* four parallel arrays, with null where a record has no value.
GetResult(recs) ==
    [ids        |-> Some([i \in 1..Len(recs) |-> recs[i].id]),
     documents  |-> Some([i \in 1..Len(recs) |-> recs[i].document]),
     metadatas  |-> Some([i \in 1..Len(recs) |-> recs[i].metadata]),
     embeddings |-> Some([i \in 1..Len(recs) |-> recs[i].embedding])]

\* x || []
OrEmpty(x) == IF x # None THEN x[1] ELSE <<>>

\* a[i] ?? undefined, also past the end of the array
Nth(a, i) == IF i <= Len(a) THEN a[i] ELSE None

\* ------------------------------------------------------------ listRecords

\* A mutation: null entries are dropped before the arrays are zipped.
Compact(a) == SelectSeq(a, LAMBDA x : x # None)

ZipRecordsCompacting(res) ==
    LET ids == OrEmpty(res.ids)
        docs == Compact(OrEmpty(res.documents))
        metas == Compact(OrEmpty(res.metadatas))
        embs == Compact(OrEmpty(res.embeddings))
    IN  [i \in 1..Len(ids) |->
            [id |-> ids[i], document |-> Nth(docs, i),
             metadata |-> Nth(metas, i), embedding |-> Nth(embs, i)]]

\* The loop of listRecords over the answer's parallel arrays.
ZipRecords(res) ==
    LET ids == OrEmpty(res.ids)
        docs == OrEmpty(res.documents)
        metas == OrEmpty(res.metadatas)
        embs == OrEmpty(res.embeddings)
    IN  [i \in 1..Len(ids) |->
            [id |-> ids[i], document |-> Nth(docs, i),
             metadata |-> Nth(metas, i), embedding |-> Nth(embs, i)]]

\* limit and offset are optional arguments with defaults.
ListRecordsStart(p, collection, limit, offset, ctorOk) ==
    ReadStart(p, "listRecords",
              [collection |-> collection,
               limit |-> IF limit # None THEN limit[1] ELSE DefaultLimit,
               offset |-> IF offset # None THEN offset[1] ELSE DefaultOffset],
              <<>>, ctorOk, "getCollection", GetCollectionReq(collection))

ListRecordsResume1(p, ok) ==
    /\ At(p, "listRecords", "getCollection")
    /\ UNCHANGED <<facade, backing>>
    /\ calls' = [calls EXCEPT ![p] =
          IF ok /\ HasColl(@.arg.collection)
          THEN Await(WithLoc(@, [col |-> colls[CollIdx(@.arg.collection)].id]),
                     "get", [call |-> "col.get", limit |-> @.arg.limit, offset |-> @.arg.offset])
          ELSE Return(Failed(@), <<>>)]

ListRecordsResume2(p, ok) ==
    /\ At(p, "listRecords", "get")
    /\ UNCHANGED <<facade, backing>>
    /\ calls' = [calls EXCEPT ![p] =
          IF ok /\ HasCollId(@.loc.col)
          THEN LET req == @.sent[Len(@.sent)]
                   res == GetResult(Window(RecsOf(@.loc.col), req.limit, req.offset))
               IN  Return(WithLoc(@, [col |-> @.loc.col, res |-> res]), ZipRecords(res))
          ELSE Return(Failed(@), <<>>)]

\* ------------------------------------------------------------ getRecord

\* The record getRecord builds from the answer: absent when no id came back.
FirstRecord(res) ==
    LET ids == OrEmpty(res.ids)
    IN  IF Len(ids) = 0 THEN None
        ELSE Some([id |-> ids[1], document |-> Nth(OrEmpty(res.documents), 1),
                   metadata |-> Nth(OrEmpty(res.metadatas), 1),
                   embedding |-> Nth(OrEmpty(res.embeddings), 1)])

GetRecordStart(p, collection, id, ctorOk) ==
    ReadStart(p, "getRecord", [collection |-> collection, id |-> id],
              None, ctorOk, "getCollection", GetCollectionReq(collection))

GetRecordResume1(p, ok) ==
    /\ At(p, "getRecord", "getCollection")
    /\ UNCHANGED <<facade, backing>>
    /\ calls' = [calls EXCEPT ![p] =
          IF ok /\ HasColl(@.arg.collection)
          THEN Await(WithLoc(@, [col |-> colls[CollIdx(@.arg.collection)].id]),
                     "get", [call |-> "col.get", ids |-> <<@.arg.id>>])
          ELSE Return(Failed(@), None)]

GetRecordResume2(p, ok) ==
    /\ At(p, "getRecord", "get")
    /\ UNCHANGED <<facade, backing>>
    /\ calls' = [calls EXCEPT ![p] =
          IF ok /\ HasCollId(@.loc.col)
          THEN Return(@, FirstRecord(GetResult(ById(RecsOf(@.loc.col), @.arg.id))))
          ELSE Return(Failed(@), None)]

\* ------------------------------------------------------------ queryCollection

\* qArgs: the query texts and embeddings that were given, and
\* opts.nResults ?? 5.
QArgs(opts) == [call |-> "col.query", queryTexts |-> opts.queryTexts,
                queryEmbeddings |-> opts.queryEmbeddings,
                nResults |-> IF opts.nResults # None THEN opts.nResults[1] ELSE DefaultNResults]

\* The store's answer to a query: the ids of at most nResults records.
QueryResult(recs, n) == [ids |-> [i \in 1..Min(n, Len(recs)) |-> recs[i].id]]

QueryCollectionStart(p, collection, opts, ctorOk) ==
    ReadStart(p, "queryCollection", [collection |-> collection, opts |-> opts],
              <<>>, ctorOk, "getCollection", GetCollectionReq(collection))

QueryCollectionResume1(p, ok) ==
    /\ At(p, "queryCollection", "getCollection")
    /\ UNCHANGED <<facade, backing>>
    /\ calls' = [calls EXCEPT ![p] =
          IF ok /\ HasColl(@.arg.collection)
          THEN Await(WithLoc(@, [col |-> colls[CollIdx(@.arg.collection)].id]),
                     "query", QArgs(@.arg.opts))
          ELSE Return(Failed(@), <<>>)]

QueryCollectionResume2(p, ok) ==
    /\ At(p, "queryCollection", "query")
    /\ UNCHANGED <<facade, backing>>
    /\ calls' = [calls EXCEPT ![p] =
          IF ok /\ HasCollId(@.loc.col)
          THEN Return(@, QueryResult(RecsOf(@.loc.col), @.sent[Len(@.sent)].nResults))
          ELSE Return(Failed(@), <<>>)]

\* ------------------------------------------------------------ addRecord

\* A caller's metadata is undefined, null or a mapping, of which the model
\* keeps the keys.
MetaUndefined == [kind |-> "undefined", keys |-> {}]
MetaNull == [kind |-> "null", keys |-> {}]
MetaMap(keys) == [kind |-> "map", keys |-> keys]

\* Object.keys(m || {})
ObjectKeys(m) == IF m.kind = "map" THEN m.keys ELSE {}

\* Array.isArray(e) && e.length > 0
NonEmptyArray(e) == e # None /\ Len(e[1]) > 0

EmbeddingToSendAsGiven(record) ==
    IF record.embedding # None THEN record.embedding[1] ELSE Placeholder

EmbeddingToSend(record) ==
    IF NonEmptyArray(record.embedding) THEN record.embedding[1] ELSE Placeholder

IncludesMetadataWhenDefined(record) == record.metadata.kind # "undefined"

\* record.metadata !== undefined && Object.keys(record.metadata || {}).length > 0
IncludesMetadata(record) ==
    record.metadata.kind # "undefined" /\ Cardinality(ObjectKeys(record.metadata)) > 0

AddArgsWithoutDocument(id, record) ==
    [call       |-> "col.add",
     ids        |-> <<id>>,
     documents  |-> <<"">>,
     embeddings |-> <<IF NonEmptyArray(record.embedding) THEN record.embedding[1] ELSE <<0>>>>,
     metadatas  |-> IF record.metadata.kind = "map" /\ record.metadata.keys # {}
                    THEN Some(<<record.metadata>>) ELSE None]

\* addArgs.  In a request a field that is always set is its array; a field
\* that may be left out is None, or Some(array) when it is set.
AddArgs(id, record) ==
    [call       |-> "col.add",
     ids        |-> <<id>>,
     documents  |-> <<IF record.document # None THEN record.document[1] ELSE "">>,
     embeddings |-> <<EmbeddingToSend(record)>>,
     metadatas  |-> IF IncludesMetadata(record) THEN Some(<<record.metadata>>) ELSE None]

\* record.id || generated
RecordId(record, generated) ==
    IF record.id # None /\ record.id[1] # "" THEN record.id[1] ELSE generated

AddRecordStart(p, collection, record, generated, ctorOk) ==
    WriteStart(p, "addRecord", [collection |-> collection, record |-> record],
               [id |-> RecordId(record, generated)], ctorOk,
               "getOrCreateCollection", [call |-> "getOrCreateCollection", name |-> collection])

\* getOrCreateCollection answered: the add request is built and sent.
AddRecordResume1(p, ok) ==
    /\ At(p, "addRecord", "getOrCreateCollection")
    /\ UNCHANGED <<facade, tenants, databases>>
    /\ LET c == calls[p]
           name == c.arg.collection
       IN  IF ok /\ (HasColl(name) \/ CanCreate)
           THEN /\ colls' = IF HasColl(name) THEN colls ELSE Append(colls, NewColl(name))
                /\ collSeq' = IF HasColl(name) THEN collSeq ELSE collSeq + 1
                /\ calls' = [calls EXCEPT ![p] =
                      Await(WithLoc(c, [id |-> c.loc.id,
                                        col |-> IF HasColl(name) THEN colls[CollIdx(name)].id
                                                ELSE NewColl(name).id]),
                            "add", AddArgs(c.loc.id, c.arg.record))]
           ELSE /\ UNCHANGED <<colls, collSeq>>
                /\ calls' = [calls EXCEPT ![p] = Throw(Failed(c), StoreError)]

\* The store adds a record; a record whose id the collection already holds
\* is ignored.
StoreAdd(recs, args) ==
    IF HasRec(recs, args.ids[1]) THEN recs
    ELSE Append(recs, [id        |-> args.ids[1],
                       document  |-> Some(args.documents[1]),
                       metadata  |-> IF args.metadatas # None
                                     THEN Some(args.metadatas[1][1].keys) ELSE None,
                       embedding |-> Some(args.embeddings[1])])

AddRecordResume2(p, ok) ==
    /\ At(p, "addRecord", "add")
    /\ UNCHANGED <<facade, collSeq, tenants, databases>>
    /\ LET c == calls[p]
       IN  IF ok /\ HasCollId(c.loc.col)
           THEN /\ colls' = [colls EXCEPT ![CollIdxById(c.loc.col)].recs =
                                 StoreAdd(@, c.sent[Len(c.sent)])]
                /\ calls' = [calls EXCEPT ![p] = Return(c, c.loc.id)]
           ELSE /\ UNCHANGED colls
                /\ calls' = [calls EXCEPT ![p] = Throw(Failed(c), StoreError)]

\* ------------------------------------------------------------ deleteRecord

DeleteRecordStart(p, collection, id, ctorOk) ==
    WriteStart(p, "deleteRecord", [collection |-> collection, id |-> id], None, ctorOk,
               "getCollection", GetCollectionReq(collection))

DeleteRecordResume1(p, ok) ==
    /\ At(p, "deleteRecord", "getCollection")
    /\ UNCHANGED <<facade, backing>>
    /\ calls' = [calls EXCEPT ![p] =
          IF ok /\ HasColl(@.arg.collection)
          THEN Await(WithLoc(@, [col |-> colls[CollIdx(@.arg.collection)].id]),
                     "delete", [call |-> "col.delete", ids |-> <<@.arg.id>>])
          ELSE Throw(Failed(@), StoreError)]

DeleteRecordResume2(p, ok) ==
    /\ At(p, "deleteRecord", "delete")
    /\ UNCHANGED <<facade, collSeq, tenants, databases>>
    /\ LET c == calls[p]
       IN  IF ok /\ HasCollId(c.loc.col)
           THEN /\ colls' = [colls EXCEPT ![CollIdxById(c.loc.col)].recs =
                                 SelectSeq(@, LAMBDA r : r.id # c.arg.id)]
                /\ calls' = [calls EXCEPT ![p] = Return(c, TRUE)]
           ELSE /\ UNCHANGED colls
                /\ calls' = [calls EXCEPT ![p] = Throw(Failed(c), StoreError)]

\* ------------------------------------------------------------ updateRecord

\* args before the embedding is decided: ids: [record.id], and the document
\* and the metadata when they are not undefined.
UpdateArgs(record) ==
    [call       |-> "col.update",
     ids        |-> <<record.id>>,
     documents  |-> IF record.document # None THEN Some(<<record.document[1]>>) ELSE None,
     metadatas  |-> IF record.metadata.kind # "undefined"
                    THEN Some(<<record.metadata>>) ELSE None,
     embeddings |-> None]

ExistingEmbeddingDropped(existing) == None

\* The embedding of the record getRecord answered, when it is a non-empty
\* array: existing?.embedding && Array.isArray(...) && length > 0.
ExistingEmbedding(existing) ==
    IF existing # None /\ NonEmptyArray(existing[1].embedding)
    THEN Some(<<existing[1].embedding[1]>>) ELSE None

\* The update request once the lookup of the existing record has ended with
\* `existing` (None when it was not made, failed or found nothing).
UpdateRequestIgnoringExisting(record, existing) == UpdateArgs(record)

UpdateRequest(record, existing) ==
    [UpdateArgs(record) EXCEPT !.embeddings = ExistingEmbedding(existing)]

\* The update request of a record that brings its own non-empty embedding.
UpdateRequestSupplied(record) ==
    [UpdateArgs(record) EXCEPT !.embeddings = Some(<<record.embedding[1]>>)]

UpdateRecordStart(p, collection, record, ctorOk) ==
    WriteStart(p, "updateRecord", [collection |-> collection, record |-> record], None,
               ctorOk, "getCollection", GetCollectionReq(collection))

\* getCollection answered.  With an embedding of its own the update is sent;
\* otherwise, with an id, getRecord is entered: it answers undefined when
\* the facade is no longer connected, throws when its session cannot be
\* constructed (which updateRecord ignores), or awaits its getCollection.
UpdateRecordResume1(p, ok, ctorOk) ==
    /\ At(p, "updateRecord", "getCollection")
    /\ UNCHANGED <<facade, backing>>
    /\ LET c == calls[p]
           record == c.arg.record
           col == WithLoc(c, [col |-> colls[CollIdx(c.arg.collection)].id, existing |-> None])
       IN  calls' = [calls EXCEPT ![p] =
              IF ~(ok /\ HasColl(c.arg.collection)) THEN Throw(Failed(c), StoreError)
              ELSE IF NonEmptyArray(record.embedding)
                   THEN Await(col, "update", UpdateRequestSupplied(record))
              ELSE IF record.id # None /\ record.id[1] # ""
                   THEN IF ~connected
                        THEN Await(col, "update", UpdateRequest(record, None))
                        ELSE IF ~ctorOk
                        THEN Await(Failed(Construct(col)), "update",
                                   UpdateRequest(record, None))
                        ELSE Await(Construct(col), "existing.getCollection",
                                   GetCollectionReq(c.arg.collection))
              ELSE Await(col, "update", UpdateRequest(record, None))]

\* getRecord's getCollection answered.
UpdateRecordResume2(p, ok) ==
    /\ At(p, "updateRecord", "existing.getCollection")
    /\ UNCHANGED <<facade, backing>>
    /\ LET c == calls[p]
       IN  calls' = [calls EXCEPT ![p] =
              IF ok /\ HasColl(c.arg.collection)
              THEN Await(WithLoc(c, [col |-> c.loc.col, existing |-> None,
                                     ecol |-> colls[CollIdx(c.arg.collection)].id]),
                         "existing.get", [call |-> "col.get", ids |-> <<c.arg.record.id[1]>>])
              ELSE Await(Failed(c), "update", UpdateRequest(c.arg.record, None))]

\* getRecord's get answered: the update is sent with the embedding found.
UpdateRecordResume3(p, ok) ==
    /\ At(p, "updateRecord", "existing.get")
    /\ UNCHANGED <<facade, backing>>
    /\ LET c == calls[p]
           answered == ok /\ HasCollId(c.loc.ecol)
           existing == IF answered
                       THEN FirstRecord(GetResult(ById(RecsOf(c.loc.ecol), c.arg.record.id[1])))
                       ELSE None
       IN  calls' = [calls EXCEPT ![p] =
              Await(WithLoc(IF answered THEN c ELSE Failed(c),
                            [col |-> c.loc.col, existing |-> existing]),
                    "update", UpdateRequest(c.arg.record, existing))]

\* The store updates the record with the request's id, if it holds one: the
\* fields the request carries replace the record's.  A request with a
\* document and no embedding makes the store embed the document itself:
\* `auto` is the embedding it computes.
StoreUpdate(recs, args, auto) ==
    IF ~HasRec(recs, args.ids[1][1]) THEN recs
    ELSE LET i == RecIdx(recs, args.ids[1][1])
             r == recs[i]
         IN  [recs EXCEPT ![i] =
                [id        |-> r.id,
                 document  |-> IF args.documents # None
                               THEN Some(args.documents[1][1]) ELSE r.document,
                 metadata  |-> IF args.metadatas # None /\ args.metadatas[1][1].kind = "map"
                               THEN Some(args.metadatas[1][1].keys) ELSE r.metadata,
                 embedding |-> IF args.embeddings # None THEN Some(args.embeddings[1][1])
                               ELSE IF args.documents # None THEN Some(auto)
                               ELSE r.embedding]]

\* update answered.  The store refuses a request without an id, and one
\* whose document it would have to embed when it has no embedding function
\* (auto is None).
UpdateRecordResume4(p, ok, auto) ==
    /\ At(p, "updateRecord", "update")
    /\ UNCHANGED <<facade, collSeq, tenants, databases>>
    /\ LET c == calls[p]
           args == c.sent[Len(c.sent)]
           needsAuto == args.embeddings = None /\ args.documents # None
       IN  IF /\ ok
              /\ HasCollId(c.loc.col)
              /\ args.ids[1] # None
              /\ (needsAuto => auto # None)
           THEN /\ colls' = [colls EXCEPT ![CollIdxById(c.loc.col)].recs =
                                 StoreUpdate(@, args, IF auto # None THEN auto[1] ELSE <<>>)]
                /\ calls' = [calls EXCEPT ![p] = Return(c, TRUE)]
           ELSE /\ UNCHANGED colls
                /\ calls' = [calls EXCEPT ![p] = Throw(Failed(c), StoreError)]

\* ------------------------------------------------------------ initial state

Procs == 1..NumCalls

\* A store as another client may have left it: collection "docs" holds
\* records A, B and C, inserted in that order; B has no document and no
\* metadata, C has no embedding.
RecA == [id |-> "A", document |-> Some("a"), metadata |-> Some({"k"}), embedding |-> Some(<<5>>)]
RecB == [id |-> "B", document |-> None, metadata |-> None, embedding |-> Some(<<6>>)]
RecC == [id |-> "C", document |-> Some("c"), metadata |-> Some({"k"}), embedding |-> None]
Preloaded == <<[id |-> "c1", name |-> "docs", recs |-> <<RecA, RecB, RecC>>]>>

\* The facade as constructed: not connected, no config, no sessions.
InitFacade ==
    /\ connected = FALSE
    /\ config = [tenant |-> None]
    /\ sdkClient = None
    /\ adminClient = None
    /\ calls = [p \in Procs |-> Idle]

InitStore(preloaded) ==
    /\ colls = preloaded
    /\ collSeq = Len(preloaded)
    /\ tenants = {DefaultTenant}
    /\ databases = <<>>

\* ------------------------------------------------ the values callers pass

Comps == {1}
Vecs == UNION {[1..k -> Comps] : k \in 0..MaxDim}
OptVecs == {None} \cup {Some(v) : v \in Vecs}
Metas == {MetaUndefined, MetaNull, MetaMap({}), MetaMap({"k"})}
GenIds == {"g1"}
Identities == {None, Some("acme")}
Autos == {None, Some(<<9>>)}
NoConfig == [tenant |-> None]

\* The record of the end-to-end scenario: a document and nothing else.
Hello == [id |-> None, document |-> Some("hello"), metadata |-> MetaUndefined,
          embedding |-> None]
Query == [queryTexts |-> Some(<<"hello">>), queryEmbeddings |-> None, nResults |-> Some(2)]

AddInputs == [id : {None, Some("A")}, document : {None, Some("hello")},
              metadata : Metas, embedding : OptVecs]
UpdateInputs == [id : {None, Some("C"), Some("g1")}, document : {None, Some("bye")},
                 metadata : {MetaUndefined}, embedding : OptVecs]

\* ------------------------------------------------- the operations, by caller

Connect(P, cfgs) ==
    \E p \in P :
        \/ \E cfg \in cfgs, ctorOk \in BOOLEAN : ConnectStart(p, cfg, ctorOk)
        \/ \E ok \in BOOLEAN : ConnectResume(p, ok)

ListTenants(P) ==
    \E p \in P :
        \/ ListTenantsStart(p)
        \/ \E ok \in BOOLEAN, identity \in Identities : ListTenantsResume(p, ok, identity)

ListDatabases(P) ==
    \E p \in P :
        \/ \E tenant \in {None, Some("acme")} : ListDatabasesStart(p, tenant)
        \/ \E ok \in BOOLEAN : ListDatabasesResume(p, ok)

CreateTenant(P) ==
    \E p \in P :
        \/ CreateTenantStart(p, "acme")
        \/ \E ok \in BOOLEAN : CreateTenantResume(p, ok)

ManageDatabases(P) ==
    \E p \in P :
        \/ CreateDatabaseStart(p, "acme", "db1")
        \/ DeleteDatabaseStart(p, "acme", "db1")
        \/ \E ok \in BOOLEAN : CreateDatabaseResume(p, ok)
        \/ \E ok \in BOOLEAN : DeleteDatabaseResume(p, ok)

ListCollections(P) ==
    \E p \in P :
        \/ \E ctorOk \in BOOLEAN : ListCollectionsStart(p, ctorOk)
        \/ \E ok \in BOOLEAN : ListCollectionsResume(p, ok)

ResolveCollectionId(P) ==
    \E p \in P :
        \/ \E x \in {"docs", "c1", "nope"}, ctorOk \in BOOLEAN :
              ResolveCollectionIdStart(p, x, ctorOk)
        \/ \E ok \in BOOLEAN : ResolveCollectionIdResume(p, ok)

CreateCollection(P) ==
    \E p \in P :
        \/ \E ctorOk \in BOOLEAN : CreateCollectionStart(p, "docs", ctorOk)
        \/ \E ok \in BOOLEAN : CreateCollectionResume(p, ok)

DeleteCollection(P) ==
    \E p \in P :
        \/ \E ctorOk \in BOOLEAN : DeleteCollectionStart(p, "docs", ctorOk)
        \/ \E ok \in BOOLEAN : DeleteCollectionResume(p, ok)

RenameCollection(P) ==
    \E p \in P :
        \/ \E ctorOk \in BOOLEAN : RenameCollectionStart(p, "docs", "tmp", ctorOk)
        \/ \E ok \in BOOLEAN : RenameCollectionResume1(p, ok)
        \/ \E ok \in BOOLEAN : RenameCollectionResume2(p, ok)

ListRecords(P, limits, offsets) ==
    \E p \in P :
        \/ \E limit \in limits, offset \in offsets, ctorOk \in BOOLEAN :
              ListRecordsStart(p, "docs", limit, offset, ctorOk)
        \/ \E ok \in BOOLEAN : ListRecordsResume1(p, ok)
        \/ \E ok \in BOOLEAN : ListRecordsResume2(p, ok)

GetRecord(P, ids) ==
    \E p \in P :
        \/ \E id \in ids, ctorOk \in BOOLEAN : GetRecordStart(p, "docs", id, ctorOk)
        \/ \E ok \in BOOLEAN : GetRecordResume1(p, ok)
        \/ \E ok \in BOOLEAN : GetRecordResume2(p, ok)

QueryCollection(P) ==
    \E p \in P :
        \/ \E ctorOk \in BOOLEAN : QueryCollectionStart(p, "docs", Query, ctorOk)
        \/ \E ok \in BOOLEAN : QueryCollectionResume1(p, ok)
        \/ \E ok \in BOOLEAN : QueryCollectionResume2(p, ok)

AddRecord(P, records) ==
    \E p \in P :
        \/ \E record \in records, generated \in GenIds, ctorOk \in BOOLEAN :
              AddRecordStart(p, "docs", record, generated, ctorOk)
        \/ \E ok \in BOOLEAN : AddRecordResume1(p, ok)
        \/ \E ok \in BOOLEAN : AddRecordResume2(p, ok)

UpdateRecord(P, records) ==
    \E p \in P :
        \/ \E record \in records, ctorOk \in BOOLEAN :
              UpdateRecordStart(p, "docs", record, ctorOk)
        \/ \E ok \in BOOLEAN, ctorOk \in BOOLEAN : UpdateRecordResume1(p, ok, ctorOk)
        \/ \E ok \in BOOLEAN : UpdateRecordResume2(p, ok)
        \/ \E ok \in BOOLEAN : UpdateRecordResume3(p, ok)
        \/ \E ok \in BOOLEAN, auto \in Autos : UpdateRecordResume4(p, ok, auto)

DeleteRecord(P, ids) ==
    \E p \in P :
        \/ \E id \in ids, ctorOk \in BOOLEAN : DeleteRecordStart(p, "docs", id, ctorOk)
        \/ \E ok \in BOOLEAN : DeleteRecordResume1(p, ok)
        \/ \E ok \in BOOLEAN : DeleteRecordResume2(p, ok)

\* ----------------------------------------------- the sequential specification
\* One caller that awaits each call before it makes the next, and every
\* operation of the facade on one collection and one record.

One == {1}

Init == InitFacade /\ InitStore(Preloaded)

Next ==
    \/ Connect(One, Configs)
    \/ ListTenants(One)
    \/ ListDatabases(One)
    \/ CreateTenant(One)
    \/ ManageDatabases(One)
    \/ ListCollections(One)
    \/ ResolveCollectionId(One)
    \/ CreateCollection(One)
    \/ DeleteCollection(One)
    \/ RenameCollection(One)
    \/ ListRecords(One, {None}, {None})
    \/ GetRecord(One, {"A"})
    \/ QueryCollection(One)
    \/ AddRecord(One, {Hello})
    \/ UpdateRecord(One, {[Hello EXCEPT !.id = Some("A")]})
    \/ DeleteRecord(One, {"A"})

Spec == Init /\ [][Next]_vars

\* ------------------------------------------------- the specification of addRecord
\* One caller that connects and adds records of every shape.

NextAdd ==
    \/ Connect(One, {NoConfig})
    \/ AddRecord(One, AddInputs)

InitAdd == InitFacade /\ InitStore(<<>>)

SpecAdd == InitAdd /\ [][NextAdd]_vars

\* --------------------------------------------- the specification of the records
\* One caller that connects, adds the record of the end-to-end scenario,
\* and reads, lists, updates and deletes records.

NextRecords ==
    \/ Connect(One, {NoConfig})
    \/ AddRecord(One, {Hello})
    \/ GetRecord(One, {"g1"})
    \/ ListRecords(One, {None, Some(2)}, {None, Some(1)})
    \/ UpdateRecord(One, UpdateInputs)
    \/ DeleteRecord(One, {"g1"})
    \/ DeleteCollection(One)
    \/ RenameCollection(One)

SpecRecords == Init /\ [][NextRecords]_vars

\* --------------------------------------- the specification of the record's life
\* One caller that connects, adds the record of the end-to-end scenario, reads
\* it back, and updates, deletes, or loses it with its collection.

NextLife ==
    \/ Connect(One, {NoConfig})
    \/ AddRecord(One, {Hello})
    \/ GetRecord(One, {"g1"})
    \/ UpdateRecord(One, {[id |-> Some("g1"), document |-> d,
                           metadata |-> MetaUndefined, embedding |-> e] :
                          d \in {None, Some("bye")}, e \in {None, Some(<<1>>)}})
    \/ DeleteRecord(One, {"g1"})
    \/ DeleteCollection(One)
    \/ RenameCollection(One)

SpecLife == Init /\ [][NextLife]_vars

\* ------------------------------------------- the specification of the connection
\* NumCalls callers at once: connects race with each other and with tenant
\* administration.

NextConnect ==
    \/ Connect(Procs, {NoConfig})
    \/ CreateTenant(Procs)

SpecConnect == Init /\ [][NextConnect]_vars

\* ----------------------------------------------- the concurrent specification
\* NumCalls callers at once: connects race with each other, and updates of one
\* record race with each other.

NextRace ==
    \/ Connect(Procs, {NoConfig})
    \/ UpdateRecord(Procs, {[id |-> Some("A"), document |-> None,
                             metadata |-> MetaUndefined, embedding |-> e] :
                            e \in {None, Some(<<1>>)}})

SpecRace == Init /\ [][NextRace]_vars

\* ================================================================ the claims

ReadOps == {"listTenants", "listDatabases", "listCollections", "listRecords",
            "getRecord", "queryCollection"}
WriteOps == {"addRecord", "updateRecord", "deleteRecord", "createCollection",
             "deleteCollection", "renameCollection", "createTenant", "createDatabase",
             "deleteDatabase"}

\* The step enters a call in slot p.
Enters(p) == Free(p) /\ calls'[p] # calls[p]

\* The step ends the call of slot p.
Ends(p) == calls'[p] # calls[p] /\ calls'[p].pc = "done"

\* ---------------------------------------------------------------- C1
\* C1: a read operation entered while the facade is disconnected ends at
\* once with an empty sequence / absent value, and a write operation
\* entered while it is disconnected ends at once with the error "not
\* connected"; neither makes a request of the SDK nor changes the store.
C1_Disconnected ==
    [][\A p \in Procs :
          (~connected /\ Enters(p) /\ calls'[p].op \in ReadOps \cup WriteOps) =>
              /\ calls'[p].pc = "done"
              /\ calls'[p].sent = <<>>
              /\ UNCHANGED backing
              /\ calls'[p].op \in ReadOps =>
                    calls'[p].ret = [kind |-> "return", val |-> <<>>]
              /\ calls'[p].op \in WriteOps =>
                    calls'[p].ret = [kind |-> "throw", val |-> "not connected"]]_vars

\* The facade was connected, a connect failed, and addRecord then threw.
C1_Witness ==
    /\ ~connected
    /\ calls[1].op = "addRecord"
    /\ calls[1].ret = [kind |-> "throw", val |-> "not connected"]
    /\ colls # Preloaded

\* ---------------------------------------------------------------- C2
\* C2: connect never raises.  The step that ends a connect returns true
\* exactly when the construction of the sessions and the version check both
\* succeeded, and then leaves the facade connected; otherwise it returns
\* false and leaves the facade disconnected with both session handles
\* discarded, whatever the facade's state was before.
C2_Connect ==
    [][\A p \in Procs :
          (Ends(p) /\ calls'[p].op = "connect") =>
              /\ calls'[p].ret.kind = "return"
              /\ calls'[p].ret.val = (calls'[p].loc.ctorOk /\ calls'[p].loc.versionOk)
              /\ calls'[p].ret.val => connected'
              /\ ~calls'[p].ret.val =>
                    ~connected' /\ sdkClient' = None /\ adminClient' = None]_vars

\* One connect returned true and a later one, whose version check failed,
\* returned false and left the facade disconnected.
C2_Witness ==
    /\ ~connected
    /\ sdkClient = None
    /\ \E p, q \in Procs :
          /\ calls[p].op = "connect" /\ calls[p].ret = [kind |-> "return", val |-> TRUE]
          /\ calls[q].op = "connect" /\ calls[q].ret = [kind |-> "return", val |-> FALSE]
          /\ calls[q].loc.ctorOk

\* ---------------------------------------------------------------- C10
\* C10: whenever isConnected() is true, the store session handle and the
\* administrative session handle are both present.
C10_ConnectedHasSessions ==
    isConnected => sdkClient # None /\ adminClient # None

\* C10, second half: a tenant administration call entered while
\* isConnected() is true does not fail with "not connected".
C10_AdminNeverNotConnected ==
    [][\A p \in Procs :
          (connected /\ Enters(p) /\ calls'[p].op = "createTenant") =>
              calls'[p].ret # [kind |-> "throw", val |-> "not connected"]]_vars

\* ---------------------------------------------------------------- C3
\* C3: a read or discovery operation of which an SDK step failed (the
\* construction of the session, a lookup, a fetch, a query) ends by
\* returning an empty sequence / absent value, and never by throwing.
\* (resolveCollectionId answers a string, which is never empty or absent.)
C3_SwallowAndDegrade ==
    \A p \in Procs :
        (/\ calls[p].op \in ReadOps \cup {"resolveCollectionId"}
         /\ calls[p].pc = "done"
         /\ calls[p].failed # <<>>) =>
            /\ calls[p].ret.kind = "return"
            /\ calls[p].op # "resolveCollectionId"
            /\ calls[p].ret.val = <<>>

\* C3, the part about propagation alone: a read or discovery operation
\* never throws.
C3_NeverPropagates ==
    \A p \in Procs :
        calls[p].op \in ReadOps \cup {"resolveCollectionId"} => calls[p].ret.kind # "throw"

\* ---------------------------------------------------------------- C4
\* The add request of the call of slot p, once it has been sent.
SentAdd(p) == calls[p].op = "addRecord" /\ Len(calls[p].sent) >= 3
AddRequest(p) == calls[p].sent[3]

\* C4: the embedding addRecord sends is never empty: it is the caller's
\* embedding when that is a non-empty sequence, and the single-element
\* placeholder [0.0] when the caller's embedding is absent or empty.
C4_EmbeddingNeverEmpty ==
    \A p \in Procs :
        SentAdd(p) =>
            LET given == calls[p].arg.record.embedding
                sends == AddRequest(p).embeddings
            IN  /\ Len(sends) = 1
                /\ Len(sends[1]) > 0
                /\ (given # None /\ given[1] # <<>>) => sends[1] = given[1]
                /\ (given = None \/ given = Some(<<>>)) => sends[1] = <<0>>

\* addRecord was given an empty embedding and returned after sending the
\* placeholder.
C4_Witness ==
    /\ SentAdd(1)
    /\ calls[1].arg.record.embedding = Some(<<>>)
    /\ AddRequest(1).embeddings = <<Placeholder>>
    /\ calls[1].ret.kind = "return"

\* ---------------------------------------------------------------- C8
\* C8: the add request carries a metadata field exactly when the record's
\* metadata is a non-empty mapping, and then it carries that mapping; with
\* metadata absent (undefined or null) or an empty mapping the request has
\* no metadata field.
C8_MetadataField ==
    \A p \in Procs :
        SentAdd(p) =>
            LET m == calls[p].arg.record.metadata
                nonEmptyMapping == m.kind = "map" /\ m.keys # {}
            IN  /\ (AddRequest(p).metadatas # None) <=> nonEmptyMapping
                /\ nonEmptyMapping => AddRequest(p).metadatas = Some(<<m>>)

\* addRecord was given an empty mapping and returned after sending a request
\* without a metadata field.
C8_Witness ==
    /\ SentAdd(1)
    /\ calls[1].arg.record.metadata = MetaMap({})
    /\ AddRequest(1).metadatas = None
    /\ calls[1].ret.kind = "return"

\* ---------------------------------------------------------------- C7
\* C7: listRecords(limit, offset) returns one record per record of the
\* store's window (from offset, at most limit records, in the store's
\* order), and its i-th record has the id, the document, the metadata and
\* the embedding of the window's i-th record, a field the store has no
\* value for being absent, whatever the other records lack.
C7_PositionalZip ==
    \A p \in One :
        (/\ calls[p].op = "listRecords"
         /\ calls[p].pc = "done"
         /\ calls[p].failed = <<>>
         /\ calls[p].sent # <<>>) =>
            LET recs == RecsOf(calls[p].loc.col)
                offset == calls[p].arg.offset
                limit == calls[p].arg.limit
                size == IF Len(recs) - offset < limit THEN Len(recs) - offset ELSE limit
                out == calls[p].ret.val
            IN  /\ calls[p].ret.kind = "return"
                /\ Len(out) = (IF size > 0 THEN size ELSE 0)
                /\ \A i \in 1..Len(out) :
                      /\ out[i].id = recs[offset + i].id
                      /\ out[i].document = recs[offset + i].document
                      /\ out[i].metadata = recs[offset + i].metadata
                      /\ out[i].embedding = recs[offset + i].embedding

\* listRecords(limit = 2, offset = 0) on the records A, B, C returned A and
\* B, B without a document.
C7_Witness ==
    /\ calls[1].op = "listRecords"
    /\ calls[1].pc = "done"
    /\ calls[1].arg.limit = 2
    /\ calls[1].arg.offset = 0
    /\ Len(calls[1].ret.val) = 2
    /\ calls[1].ret.val[1].id = "A"
    /\ calls[1].ret.val[2].id = "B"
    /\ calls[1].ret.val[2].document = None
    /\ calls[1].ret.val[2].embedding = Some(<<6>>)

\* ---------------------------------------------------------------- C5
\* The update request of the call of slot p, sent and not yet answered.
UpdateSent(p) == At(p, "updateRecord", "update")
LastSent(p) == calls[p].sent[Len(calls[p].sent)]

\* The embedding the store holds for the record of that update, if any.
StoredFor(p) ==
    LET id == calls[p].arg.record.id
        col == calls[p].loc.col
    IN  IF id # None /\ HasCollId(col) /\ HasRec(RecsOf(col), id[1])
        THEN RecsOf(col)[RecIdx(RecsOf(col), id[1])].embedding
        ELSE None

\* C5: the update request carries the supplied embedding if that is
\* non-empty; otherwise the record's stored embedding if the lookup fetched
\* it and it is non-empty; otherwise no embeddings field.  An update whose
\* lookup failed is still sent, and an update the store refuses throws.
C5_EmbeddingSelection ==
    \A p \in One :
        /\ UpdateSent(p) =>
              LET supplied == calls[p].arg.record.embedding
                  stored == StoredFor(p)
              IN  /\ LastSent(p).call = "col.update"
                  /\ (supplied # None /\ supplied[1] # <<>>) =>
                        LastSent(p).embeddings = Some(<<supplied[1]>>)
                  /\ (supplied = None \/ supplied = Some(<<>>)) =>
                        IF calls[p].failed = <<>> /\ stored # None /\ stored[1] # <<>>
                        THEN LastSent(p).embeddings = Some(<<stored[1]>>)
                        ELSE LastSent(p).embeddings = None
        /\ (calls[p].op = "updateRecord" /\ calls[p].pc = "done" /\ Len(calls[p].sent) >= 3) =>
              /\ LastSent(p).call = "col.update"
              /\ calls[p].ret.kind = "throw" <=>
                    (calls[p].failed # <<>>
                       /\ calls[p].failed[Len(calls[p].failed)] = "col.update")
              /\ calls[p].ret.kind = "return" => calls[p].ret.val = TRUE

\* A partial update of the generated record went out with the placeholder
\* the store held for it, and returned true.
C5_Witness ==
    /\ calls[1].op = "updateRecord"
    /\ calls[1].pc = "done"
    /\ calls[1].ret = [kind |-> "return", val |-> TRUE]
    /\ calls[1].arg.record.id = Some("g1")
    /\ calls[1].arg.record.embedding = None
    /\ calls[1].failed = <<>>
    /\ LastSent(1).embeddings = Some(<<Placeholder>>)

\* ---------------------------------------------------------------- C6
\* What getRecord(collection, id) returns from the collections cs when its
\* requests are answered.
View(cs, collection, id) ==
    IF \E i \in 1..Len(cs) : cs[i].name = collection
    THEN FirstRecord(GetResult(ById(
             cs[CHOOSE i \in 1..Len(cs) : cs[i].name = collection].recs, id)))
    ELSE None

\* The step in which the call of slot p returns from its last request.
Returns(p, op, pc) == At(p, op, pc) /\ calls'[p].pc = "done" /\ calls'[p].ret.kind = "return"

\* addRecord without id and without embedding returns its generated id.
AddsGenerated(p) ==
    /\ Returns(p, "addRecord", "add")
    /\ calls[p].arg.record.id = None
    /\ calls[p].arg.record.embedding = None
    /\ calls[p].arg.record.document # None

\* getRecord then returns the record: that id, the document, [0.0].
ReadsBack(p) ==
    LET v == View(colls', calls[p].arg.collection, calls'[p].ret.val)
    IN  /\ v # None
        /\ v[1].id = calls'[p].ret.val
        /\ v[1].document = calls[p].arg.record.document
        /\ v[1].embedding = Some(<<0>>)

\* After deleteRecord returns true, getRecord returns absent.
DeleteThenAbsent ==
    \A p \in Procs :
        Returns(p, "deleteRecord", "delete") =>
            View(colls', calls[p].arg.collection, calls[p].arg.id) = None

\* A getRecord whose requests were answered returns the store's record.
GetReturnsView ==
    \A p \in Procs :
        (At(p, "getRecord", "get") /\ Ends(p) /\ calls'[p].failed = <<>>) =>
            calls'[p].ret = [kind |-> "return",
                             val |-> View(colls, calls[p].arg.collection, calls[p].arg.id)]

\* What getRecord returns for the id changes in this step.
ViewChanges(id) ==
    View(colls, "docs", id) # None /\ View(colls', "docs", id) # View(colls, "docs", id)

DeletesRecord(id) ==
    \E p \in Procs : Returns(p, "deleteRecord", "delete") /\ calls[p].arg.id = id

\* C6 as claimed: once addRecord (without id, without embedding) returns a
\* generated id, getRecord(id) returns that id, the document and [0.0], and
\* does so until deleteRecord(id) succeeds; after deleteRecord(id) returns
\* true, getRecord(id) returns absent.
C6_UntilDeleteRecord ==
    [][/\ \A p \in Procs : AddsGenerated(p) => ReadsBack(p)
       /\ \A id \in GenIds : ViewChanges(id) => DeletesRecord(id)
       /\ DeleteThenAbsent
       /\ GetReturnsView]_vars

\* The other operations that change what getRecord returns for the id.
ChangesRecord(id) ==
    \/ DeletesRecord(id)
    \/ \E p \in Procs : /\ Returns(p, "updateRecord", "update")
                        /\ calls[p].arg.record.id = Some(id)
    \/ \E p \in Procs : Returns(p, "deleteCollection", "deleteCollection")
    \/ \E p \in Procs : Returns(p, "renameCollection", "modify")

\* C6 as amended: once addRecord (without id, without embedding) returns a
\* generated id that the collection did not hold already, a getRecord(id)
\* whose requests are answered returns that id, the document and [0.0],
\* until a deleteRecord or an updateRecord of that id, or a deleteCollection
\* or renameCollection of its collection, succeeds; after deleteRecord(id)
\* returns true, getRecord(id) returns absent.
C6_UntilChanged ==
    [][/\ \A p \in Procs :
             (/\ AddsGenerated(p)
              /\ View(colls, calls[p].arg.collection, calls'[p].ret.val) = None)
                 => ReadsBack(p)
       /\ \A id \in GenIds : ViewChanges(id) => ChangesRecord(id)
       /\ DeleteThenAbsent
       /\ GetReturnsView]_vars

\* getRecord returned the generated record with the document and [0.0].
C6_Witness ==
    /\ calls[1].op = "getRecord"
    /\ calls[1].ret = [kind |-> "return",
                       val |-> Some([id |-> "g1", document |-> Some("hello"),
                                     metadata |-> None, embedding |-> Some(<<0>>)])]

\* ---------------------------------------------------------------- C9
\* The embedding the collections cs hold for the record of p's update.
StoredIn(cs, p) ==
    LET v == View(cs, calls[p].arg.collection, calls[p].arg.record.id[1])
    IN  IF v # None THEN v[1].embedding ELSE None

\* The write of a partial update (one that supplies no embedding) succeeds.
PartialWrite(p) ==
    /\ Returns(p, "updateRecord", "update")
    /\ ~NonEmptyArray(calls[p].arg.record.embedding)
    /\ calls[p].arg.record.id # None

\* C9 as claimed: the write of a partial update on a record with a
\* non-empty stored embedding leaves that embedding as it was immediately
\* before the write, however the call's read and write interleave with
\* other updates of the record.
C9_PreservesAcrossWrite ==
    [][\A p \in Procs :
          (PartialWrite(p) /\ NonEmptyArray(StoredIn(colls, p))) =>
              StoredIn(colls', p) = StoredIn(colls, p)]_vars

\* C9 as amended: the write of a partial update whose read found a
\* non-empty embedding stores the embedding it read: afterwards the record,
\* if the store still holds it, has the embedding it had at the read, which
\* is the embedding it had immediately before the write only when no other
\* write of it landed between the two.
C9_WritesWhatItRead ==
    [][\A p \in Procs :
          (/\ PartialWrite(p)
           /\ StoredIn(colls, p) # None
           /\ calls[p].loc.existing # None
           /\ NonEmptyArray(calls[p].loc.existing[1].embedding)) =>
              StoredIn(colls', p) = calls[p].loc.existing[1].embedding]_vars

\* A partial update that read the embedding [5] has written it back after
\* another update had stored [1].
C9_Witness ==
    \E p, q \in Procs :
        /\ p # q
        /\ calls[p].op = "updateRecord" /\ calls[q].op = "updateRecord"
        /\ calls[p].ret = [kind |-> "return", val |-> TRUE]
        /\ calls[q].ret = [kind |-> "return", val |-> TRUE]
        /\ calls[p].arg.record.embedding = None
        /\ calls[q].arg.record.embedding = Some(<<1>>)
        /\ calls[p].loc.existing # None
        /\ calls[p].loc.existing[1].embedding = Some(<<5>>)
        /\ StoredIn(colls, p) = Some(<<5>>)

====
